---- MODULE Spec2Model ----
(***************************************************************************)
(* A model of the data analyst agent: the request handler analyze_data     *)
(* (app/main.py), the URL extractor (app/data_tools.py) and the question   *)
(* answering core _normalize_df / answer_questions (app/analysis.py).      *)
(*                                                                         *)
(* Text is modelled character by character: a Python str is a sequence of  *)
(* one-character strings, so that str.strip, str.lower, str.splitlines,    *)
(* the `in` operator and the regular expressions are computed, not assumed.*)
(***************************************************************************)
EXTENDS Integers, Sequences, FiniteSets, TLC

\* ------------------------------------------------------------------ text

\* The characters str.strip and \s treat as white space (the ASCII ones used here).
Whitespace == {" ", "\t", "\n", "\r"}

\* The line boundaries of str.splitlines (the ASCII ones used here).
LineBreaks == {"\n", "\r"}

Digits == {"0", "1", "2", "3", "4", "5", "6", "7", "8", "9"}

DigitVal(c) ==
  CASE c = "0" -> 0 [] c = "1" -> 1 [] c = "2" -> 2 [] c = "3" -> 3 [] c = "4" -> 4
    [] c = "5" -> 5 [] c = "6" -> 6 [] c = "7" -> 7 [] c = "8" -> 8 [] c = "9" -> 9

\* str.lower on one character (the letters the inputs use in upper case).
LowerChar(c) ==
  CASE c = "A" -> "a" [] c = "B" -> "b" [] c = "C" -> "c" [] c = "D" -> "d"
    [] c = "E" -> "e" [] c = "F" -> "f" [] c = "G" -> "g" [] c = "H" -> "h"
    [] c = "I" -> "i" [] c = "J" -> "j" [] c = "K" -> "k" [] c = "L" -> "l"
    [] c = "M" -> "m" [] c = "N" -> "n" [] c = "O" -> "o" [] c = "P" -> "p"
    [] c = "Q" -> "q" [] c = "R" -> "r" [] c = "S" -> "s" [] c = "T" -> "t"
    [] c = "U" -> "u" [] c = "V" -> "v" [] c = "W" -> "w" [] c = "X" -> "x"
    [] c = "Y" -> "y" [] c = "Z" -> "z" [] OTHER -> c

\* q.lower()
Lower(s) == [i \in 1..Len(s) |-> LowerChar(s[i])]

\* The least element of a non-empty set of integers.
Least(S) == CHOOSE m \in S : \A k \in S : m <= k

\* The greatest element of a non-empty set of integers.
Greatest(S) == CHOOSE m \in S : \A k \in S : m >= k

\* s.strip(): s from its first to its last character that is not white space.
Strip(s) ==
  LET ink == {i \in 1..Len(s) : s[i] \notin Whitespace}
  IN  IF ink = {} THEN <<>> ELSE SubSeq(s, Least(ink), Greatest(ink))

\* s[a-1:b] of Python for 1 <= a: the characters at positions a..b that exist.
Slice(s, a, b) == IF b > Len(s) THEN SubSeq(s, a, Len(s)) ELSE SubSeq(s, a, b)

\* needle in hay
Contains(hay, needle) ==
  \/ needle = <<>>
  \/ \E i \in 1..(Len(hay) - Len(needle) + 1) :
       hay[i] = needle[1] /\ SubSeq(hay, i, i + Len(needle) - 1) = needle

\* s.endswith(suffix)
EndsWith(s, suffix) ==
  /\ Len(s) >= Len(suffix)
  /\ SubSeq(s, Len(s) - Len(suffix) + 1, Len(s)) = suffix

\* s.splitlines(): the lines of s without their line breaks; "\r\n" is one break and
\* a final line break opens no further line.
RECURSIVE SplitFrom(_, _)
SplitFrom(s, i) ==
  IF i > Len(s) THEN <<>>
  ELSE LET b == Least({j \in i..Len(s) : s[j] \in LineBreaks} \union {Len(s) + 1})
           next == IF b < Len(s) /\ s[b] = "\r" /\ s[b + 1] = "\n" THEN b + 2 ELSE b + 1
       IN  <<SubSeq(s, i, b - 1)>> \o SplitFrom(s, next)

splitlines(s) == SplitFrom(s, 1)

\* The number of leading characters of s that are digits.
DigitRun(s) == Least({i \in 1..Len(s) : s[i] \notin Digits} \union {Len(s) + 1}) - 1

\* re.match(r'^\d+\.\s*', s) is not None
MatchesNumbered(s) ==
  LET n == DigitRun(s) IN n >= 1 /\ Len(s) > n /\ s[n + 1] = "."

\* ------------------------------------------------------------------ URLs

HttpScheme == <<"h", "t", "t", "p">>
SchemeSep == <<":", "/", "/">>

\* The end (exclusive) of the run of non-white-space characters starting at i.
NonSpaceEnd(s, i) == Least({j \in i..Len(s) : s[j] \in Whitespace} \union {Len(s) + 1})

\* Where the body of a match of https?://[^\s]+ starting at i begins, 0 if none does.
UrlBodyStart(s, i) ==
  IF Slice(s, i, i + 3) # HttpScheme THEN 0
  ELSE LET j == IF i + 4 <= Len(s) /\ s[i + 4] = "s" THEN i + 5 ELSE i + 4
           k == IF Slice(s, j, j + 2) = SchemeSep THEN j + 3 ELSE 0
       IN  IF k # 0 /\ k <= Len(s) /\ s[k] \notin Whitespace THEN k ELSE 0

\* re.findall(r'https?://[^\s]+', text): the non-overlapping matches, left to right.
RECURSIVE FindUrls(_, _)
FindUrls(s, i) ==
  LET starts == {j \in i..Len(s) : UrlBodyStart(s, j) # 0}
  IN  IF starts = {} THEN <<>>
      ELSE LET a == Least(starts)
               e == NonSpaceEnd(s, UrlBodyStart(s, a))
           IN  <<SubSeq(s, a, e - 1)>> \o FindUrls(s, e)

extract_urls(text) == FindUrls(text, 1)

\* ---------------------------------------------------------------- tables

\* A cell of a frame: a str, an int, NaN, or "bn", the float that parse_gross returns:
\* (n + 0.f) / 1e9, where n is a natural number and f holds the digits after the
\* decimal point without trailing zeros.
StrCell(s) == [t |-> "str", s |-> s, n |-> 0, f |-> <<>>]
IntCell(n) == [t |-> "int", s |-> <<>>, n |-> n, f |-> <<>>]
NaN == [t |-> "nan", s |-> <<>>, n |-> 0, f |-> <<>>]
BillionsCell(n, f) == [t |-> "bn", s |-> <<>>, n |-> n, f |-> f]

\* A pandas DataFrame: its column labels, and its rows as sequences of cells in the
\* order of the labels. The labels of a frame are pairwise distinct.
Frame(cols, rows) == [some |-> TRUE, cols |-> cols, rows |-> rows]

\* Python's None where a frame is expected.
None == [some |-> FALSE, cols |-> <<>>, rows |-> <<>>]

\* df.empty: an axis of length 0.
IsEmpty(df) == Len(df.cols) = 0 \/ Len(df.rows) = 0

\* label in df.columns
HasCol(df, label) == \E i \in 1..Len(df.cols) : df.cols[i] = label

\* {labels}.issubset(df.columns)
HasCols(df, labels) == \A l \in labels : HasCol(df, l)

ColIndex(df, label) == CHOOSE i \in 1..Len(df.cols) : df.cols[i] = label

\* df[label] of row r
CellOf(df, r, label) == df.rows[r][ColIndex(df, label)]

\* The column labels the code names.
L_Gross == <<"G", "r", "o", "s", "s">>
L_GrossNum == <<"G", "r", "o", "s", "s", "N", "u", "m">>
L_Year == <<"Y", "e", "a", "r">>
L_Rank == <<"R", "a", "n", "k">>
L_Peak == <<"P", "e", "a", "k">>
L_Title == <<"T", "i", "t", "l", "e">>

\* analysis.py line 22, in its order.
gross_aliases == <<<<"G", "r", "o", "s", "s">>, <<"W", "o", "r", "l", "d", "w", "i", "d", "e", " ", "g", "r", "o", "s", "s">>, <<"W", "o", "r", "l", "d", "w", "i", "d", "e", " ", "G", "r", "o", "s", "s">>, <<"W", "o", "r", "l", "d", "w", "i", "d", "e", " ", "b", "o", "x", " ", "o", "f", "f", "i", "c", "e">>>>

\* The divisor of parse_gross: dollars per billion (1e9).
DollarsPerBillion == 1000000000

\* The decimal digits of a natural number: str(n).
RECURSIVE IntToStr(_)
IntToStr(n) ==
  LET d == <<"0", "1", "2", "3", "4", "5", "6", "7", "8", "9">>[(n % 10) + 1]
  IN  IF n < 10 THEN <<d>> ELSE Append(IntToStr(n \div 10), d)

\* The natural number a sequence of digits writes (0 for the empty sequence).
RECURSIVE IntOf(_)
IntOf(ds) == IF ds = <<>> THEN 0 ELSE 10 * IntOf(SubSeq(ds, 1, Len(ds) - 1)) + DigitVal(ds[Len(ds)])

\* str(x) of a str, int or NaN cell.
StrOf(c) ==
  CASE c.t = "str" -> c.s
    [] c.t = "int" -> IntToStr(c.n)
    [] c.t = "nan" -> <<"n", "a", "n">>

\* re.sub(r"[^\d.,]", "", s)
KeepNumeric(s) == SelectSeq(s, LAMBDA ch : ch \in Digits \union {".", ","})

\* s.replace(",", "")
DropCommas(s) == SelectSeq(s, LAMBDA ch : ch # ",")

RECURSIVE DropTrailingZeros(_)
DropTrailingZeros(ds) ==
  IF ds # <<>> /\ ds[Len(ds)] = "0" THEN DropTrailingZeros(SubSeq(ds, 1, Len(ds) - 1)) ELSE ds

\* float(s) for s of digits and dots: a value when s holds at least one digit and at
\* most one dot, a ValueError otherwise. The value is the pair (whole, fraction).
FloatParses(s) ==
  /\ Len(SelectSeq(s, LAMBDA ch : ch = ".")) <= 1
  /\ Len(SelectSeq(s, LAMBDA ch : ch \in Digits)) >= 1

WholePart(s) == SubSeq(s, 1, DigitRun(s))

FractionPart(s) == DropTrailingZeros(SubSeq(s, DigitRun(s) + 2, Len(s)))

\* parse_gross: the cell's str with everything but digits, dots and commas removed,
\* then the commas; NaN when float() raises, else the value divided by 1e9.
parse_gross(x) ==
  LET s == DropCommas(KeepNumeric(StrOf(x)))
  IN  IF ~FloatParses(s) THEN NaN
      ELSE BillionsCell(IntOf(WholePart(s)), FractionPart(s))

\* pd.to_numeric(errors="coerce") on one cell: a number stays, a str of digits is that
\* integer, and a str that is no number (here: any other str the inputs hold) is NaN.
ToNumeric(c) ==
  IF c.t # "str" THEN c
  ELSE IF c.s # <<>> /\ DigitRun(c.s) = Len(c.s) THEN IntCell(IntOf(c.s))
  ELSE NaN

\* out[label] = pd.to_numeric(out[label], errors="coerce")
CoerceCol(df, label) ==
  LET k == ColIndex(df, label)
  IN  [df EXCEPT !.rows = [r \in 1..Len(df.rows) |->
                             [j \in 1..Len(df.cols) |->
                                IF j = k THEN ToNumeric(df.rows[r][j]) ELSE df.rows[r][j]]]]

\* out["GrossNum"] = out["Gross"].apply(parse_gross): the column is overwritten where
\* it is, or added as the last one.
WithGrossNum(df) ==
  LET g == ColIndex(df, L_Gross)
  IN  IF HasCol(df, L_GrossNum)
      THEN LET k == ColIndex(df, L_GrossNum)
           IN  [df EXCEPT !.rows = [r \in 1..Len(df.rows) |->
                                      [j \in 1..Len(df.cols) |->
                                         IF j = k THEN parse_gross(df.rows[r][g])
                                         ELSE df.rows[r][j]]]]
      ELSE [df EXCEPT !.cols = Append(df.cols, L_GrossNum),
                      !.rows = [r \in 1..Len(df.rows) |->
                                  Append(df.rows[r], parse_gross(df.rows[r][g]))]]

\* out.columns = [str(c).strip() for c in out.columns]
StripLabels(df) == [df EXCEPT !.cols = [i \in 1..Len(df.cols) |-> Strip(df.cols[i])]]

\* next((c for c in gross_aliases if c in out.columns), None): the index of the first
\* alias, in the order of the alias list, that is a label; 0 for None.
GrossAlias(df) ==
  IF \E a \in 1..Len(gross_aliases) : HasCol(df, gross_aliases[a])
  THEN CHOOSE a \in 1..Len(gross_aliases) :
         /\ HasCol(df, gross_aliases[a])
         /\ \A b \in 1..(a - 1) : ~HasCol(df, gross_aliases[b])
  ELSE 0

\* if gross_col and "Gross" not in out.columns: out = out.rename(columns={gross_col: "Gross"})
RenameGross(df) ==
  LET a == GrossAlias(df)
  IN  IF a # 0 /\ ~HasCol(df, L_Gross)
      THEN [df EXCEPT !.cols = [i \in 1..Len(df.cols) |->
                                  IF df.cols[i] = gross_aliases[a] THEN L_Gross ELSE df.cols[i]]]
      ELSE df

\* for c in ("Year", "Rank", "Peak"): if c in out.columns: out[c] = pd.to_numeric(...)
RECURSIVE CoerceCols(_, _)
CoerceCols(df, labels) ==
  IF labels = <<>> THEN df
  ELSE LET d == IF HasCol(df, Head(labels)) THEN CoerceCol(df, Head(labels)) ELSE df
       IN  CoerceCols(d, Tail(labels))

NumericLabels == <<L_Year, L_Rank, L_Peak>>

\* The body of _normalize_df after the copy, on the working frame.
Canonical(out) ==
  LET renamed == RenameGross(StripLabels(out))
      derived == IF HasCol(renamed, L_Gross) THEN WithGrossNum(renamed) ELSE renamed
  IN  CoerceCols(derived, NumericLabels)

\* out = df: the function works on its argument, which takes the new labels, and every
\* later assignment too unless rename has replaced the working frame by then.
CallerFrameAfter_NoCopy(df) ==
  IF ~df.some \/ IsEmpty(df) THEN df
  ELSE IF RenameGross(StripLabels(df)) # StripLabels(df) THEN StripLabels(df)
  ELSE Canonical(df)

\* out = df.copy(): the frame the function works on is a new one, and the argument
\* stays as it was.
CallerFrameAfter(df) == df

\* _normalize_df: None for None or an empty frame, else the canonical copy.
_normalize_df(df) == IF ~df.some \/ IsEmpty(df) THEN None ELSE Canonical(df)

\* -------------------------------------------------------------- answers

\* An answer of the list: an int, a str, a float or a data URI. A float is the exact
\* value n / sqrt(d) before round(., 6); a data URI is the characters s of its prefix
\* followed by payload base64 characters, of a plot with or without its trend line.
IntAns(n) == [kind |-> "int", n |-> n, d |-> 1, s |-> <<>>, payload |-> 0, trend |-> FALSE]
StrAns(s) == [kind |-> "str", n |-> 0, d |-> 1, s |-> s, payload |-> 0, trend |-> FALSE]
FloatAns(n, d) == [kind |-> "float", n |-> n, d |-> d, s |-> <<>>, payload |-> 0, trend |-> FALSE]
UriAns(s, payload, trend) == [kind |-> "uri", n |-> 0, d |-> 1, s |-> s, payload |-> payload, trend |-> trend]

\* len() of a str or data URI answer.
AnsLen(a) == Len(a.s) + a.payload

\* The thresholds of the two film questions, in tenths of a billion, and the year.
CountGrossTenths == 20
EarliestGrossTenths == 15
YearLimit == 2000

\* One tenth of a billion dollars.
TenthDollars == DollarsPerBillion \div 10

\* The comparison with > for >=.
GrossGE_Strict(c, tenths) ==
  \/ c.t = "bn" /\ c.n > tenths * TenthDollars
  \/ c.t = "int" /\ 10 * c.n > tenths

\* ndf["GrossNum"] >= tenths / 10 on one cell; a comparison with NaN is False.
GrossGE(c, tenths) ==
  \/ c.t = "bn" /\ c.n >= tenths * TenthDollars
  \/ c.t = "int" /\ 10 * c.n >= tenths

\* ndf["GrossNum"] > tenths / 10 on one cell.
GrossGT(c, tenths) ==
  \/ c.t = "bn" /\ (c.n > tenths * TenthDollars \/ (c.n = tenths * TenthDollars /\ c.f # <<>>))
  \/ c.t = "int" /\ 10 * c.n > tenths

\* ndf["Year"] < y on one cell of the coerced column.
YearLT(c, y) == c.t = "int" /\ c.n < y

\* The indices of the rows of df, in row order.
RowIds(df) == [r \in 1..Len(df.rows) |-> r]

\* ndf[(ndf["GrossNum"] >= 2.0) & (ndf["Year"] < 2000)].shape[0]
CountBeforeYear(ndf) ==
  Len(SelectSeq(RowIds(ndf), LAMBDA r : /\ GrossGE(CellOf(ndf, r, L_GrossNum), CountGrossTenths)
                                /\ YearLT(CellOf(ndf, r, L_Year), YearLimit)))

\* Rule 1 with the default of rule 2.
AnswerCountOf_StrDefault(ndf) ==
  IF ~ndf.some \/ ~HasCols(ndf, {L_GrossNum, L_Year}) THEN StrAns(<<>>)
  ELSE IntAns(CountBeforeYear(ndf))

\* Rule 1's answer.
AnswerCountOf(ndf) ==
  IF ~ndf.some \/ ~HasCols(ndf, {L_GrossNum, L_Year}) THEN IntAns(0)
  ELSE IntAns(CountBeforeYear(ndf))

\* A merge that takes the right run's element on equal keys: not stable.
RECURSIVE Merge_RightFirst(_, _)
Merge_RightFirst(a, b) ==
  IF a = <<>> THEN b
  ELSE IF b = <<>> THEN a
  ELSE IF Head(b).k <= Head(a).k THEN <<Head(b)>> \o Merge_RightFirst(a, Tail(b))
  ELSE <<Head(a)>> \o Merge_RightFirst(Tail(a), b)

\* Merging two runs sorted by key k: the left run's element goes first unless the
\* right one's key is strictly smaller, which is what keeps a merge sort stable.
RECURSIVE Merge(_, _)
Merge(a, b) ==
  IF a = <<>> THEN b
  ELSE IF b = <<>> THEN a
  ELSE IF Head(b).k < Head(a).k THEN <<Head(b)>> \o Merge(a, Tail(b))
  ELSE <<Head(a)>> \o Merge(Tail(a), b)

\* sort_values(kind="mergesort") on a sequence of [k |-> key, r |-> row].
RECURSIVE MergeSort(_)
MergeSort(xs) ==
  IF Len(xs) <= 1 THEN xs
  ELSE LET h == Len(xs) \div 2
       IN  Merge(MergeSort(SubSeq(xs, 1, h)), MergeSort(SubSeq(xs, h + 1, Len(xs))))

\* ndf[ndf["GrossNum"] > 1.5].dropna(subset=["Year"]): the rows kept, in row order.
EarliestFiltered(ndf) ==
  SelectSeq(RowIds(ndf), LAMBDA r : /\ GrossGT(CellOf(ndf, r, L_GrossNum), EarliestGrossTenths)
                            /\ CellOf(ndf, r, L_Year).t # "nan")

\* filtered.sort_values("Year", kind="mergesort").iloc[0]: the row it is.
EarliestRow(ndf) ==
  LET f == EarliestFiltered(ndf)
  IN  MergeSort([i \in 1..Len(f) |-> [k |-> CellOf(ndf, f[i], L_Year).n, r |-> f[i]]])[1].r

\* Rule 2's answer.
AnswerEarliestOf(ndf) ==
  IF ~ndf.some \/ ~HasCols(ndf, {L_GrossNum, L_Year}) \/ ~HasCol(ndf, L_Title) THEN StrAns(<<>>)
  ELSE IF EarliestFiltered(ndf) = <<>> THEN StrAns(<<>>)
  ELSE StrAns(StrOf(CellOf(ndf, EarliestRow(ndf), L_Title)))

\* ndf[["Rank", "Peak"]].dropna(): the rows kept, in row order.
RankPeakRows(ndf) ==
  SelectSeq(RowIds(ndf), LAMBDA r : CellOf(ndf, r, L_Rank).t # "nan" /\ CellOf(ndf, r, L_Peak).t # "nan")

RECURSIVE Sum(_)
Sum(ns) == IF ns = <<>> THEN 0 ELSE Head(ns) + Sum(Tail(ns))

\* sub["Rank"].corr(sub["Peak"]): Pearson's r is cov / sqrt(vx * vy) with the three
\* scaled by n * n; it is NaN when a variance is zero, and the answer is then 0.0.
AnswerCorrOf(ndf) ==
  IF ~ndf.some \/ ~HasCols(ndf, {L_Rank, L_Peak}) THEN FloatAns(0, 1)
  ELSE LET sub == RankPeakRows(ndf)
           n == Len(sub)
           x == [i \in 1..n |-> CellOf(ndf, sub[i], L_Rank).n]
           y == [i \in 1..n |-> CellOf(ndf, sub[i], L_Peak).n]
           cov == n * Sum([i \in 1..n |-> x[i] * y[i]]) - Sum(x) * Sum(y)
           vx == n * Sum([i \in 1..n |-> x[i] * x[i]]) - Sum(x) * Sum(x)
           vy == n * Sum([i \in 1..n |-> y[i] * y[i]]) - Sum(y) * Sum(y)
       IN  IF sub = <<>> \/ vx * vy = 0 \/ cov = 0 THEN FloatAns(0, 1)
           ELSE FloatAns(cov, vx * vy)

\* "data:image/png;base64,"
UriPrefix == <<"d", "a", "t", "a", ":", "i", "m", "a", "g", "e", "/", "p", "n", "g", ";", "b", "a", "s", "e", "6", "4", ",">>

\* if len(data_uri) > 100_000: data_uri = data_uri[:100_000]
MaxUriLen == 100000

\* len(base64.b64encode(b)) for b of n bytes.
Base64Len(n) == 4 * ((n + 2) \div 3)

\* data_uri[:limit] of a data URI.
UriHead(a, limit) ==
  LET keptPrefix == IF Len(a.s) > limit THEN SubSeq(a.s, 1, limit) ELSE a.s
      room == limit - Len(keptPrefix)
  IN  UriAns(keptPrefix, IF a.payload > room THEN room ELSE a.payload, a.trend)

\* Lines 129-130 without lines 132-133: the data URI is never cut.
DataUriOf_Uncut(n, trend) == UriAns(UriPrefix, Base64Len(n), trend)

\* Lines 129-133: the data URI of a PNG of n bytes, cut when it is too long.
DataUriOf(n, trend) ==
  LET data_uri == UriAns(UriPrefix, Base64Len(n), trend)
  IN  IF AnsLen(data_uri) > MaxUriLen THEN UriHead(data_uri, MaxUriLen) ELSE data_uri

\* Whether rule 4 gets as far as drawing: the columns exist and a row is left.
PlotDraws(ndf) == ndf.some /\ HasCols(ndf, {L_Rank, L_Peak}) /\ RankPeakRows(ndf) # <<>>

\* linregress(x, y) raises ValueError when x holds more than one value and all are
\* identical (scipy: "Cannot calculate a linear regression if all x values are
\* identical").
FitRaises(ndf) ==
  LET sub == RankPeakRows(ndf)
  IN  /\ Len(sub) > 1
      /\ \A i \in 1..Len(sub) : CellOf(ndf, sub[i], L_Rank).n = CellOf(ndf, sub[1], L_Rank).n

\* The sentinel of the else branch.
NotRecognized == <<"Q", "u", "e", "s", "t", "i", "o", "n", " ", "n", "o", "t", " ", "r", "e", "c", "o", "g", "n", "i", "z", "e", "d", " ", "o", "r", " ", "d", "a", "t", "a", " ", "m", "i", "s", "s", "i", "n", "g">>

\* ------------------------------------------------------------- dispatcher

K_how_many == <<"h", "o", "w", " ", "m", "a", "n", "y">>
K_2bn == <<"$", "2", " ", "b", "n">>
K_before_2000 == <<"b", "e", "f", "o", "r", "e", " ", "2", "0", "0", "0">>
K_earliest_film == <<"e", "a", "r", "l", "i", "e", "s", "t", " ", "f", "i", "l", "m">>
K_15bn == <<"1", ".", "5", " ", "b", "n">>
K_correlation == <<"c", "o", "r", "r", "e", "l", "a", "t", "i", "o", "n">>
K_scatterplot == <<"s", "c", "a", "t", "t", "e", "r", "p", "l", "o", "t">>
K_rank == <<"r", "a", "n", "k">>
K_peak == <<"p", "e", "a", "k">>

\* The conditions of the if / elif chain, each on q.lower().
IsCountQ(q) == LET l == Lower(q) IN Contains(l, K_how_many) /\ Contains(l, K_2bn) /\ Contains(l, K_before_2000)
IsEarliestQ(q) == LET l == Lower(q) IN Contains(l, K_earliest_film) /\ Contains(l, K_15bn)
IsCorrQ(q) == LET l == Lower(q) IN Contains(l, K_correlation) /\ Contains(l, K_rank) /\ Contains(l, K_peak)
IsPlotQ(q) == LET l == Lower(q) IN Contains(l, K_scatterplot) /\ Contains(l, K_rank) /\ Contains(l, K_peak)

\* The chain with its third and fourth branches in the other order.
Rule_PlotFirst(q) ==
  IF IsCountQ(q) THEN "count"
  ELSE IF IsEarliestQ(q) THEN "earliest"
  ELSE IF IsPlotQ(q) THEN "scatterplot"
  ELSE IF IsCorrQ(q) THEN "correlation"
  ELSE "sentinel"

\* The branch of the chain that question q takes: the first whose condition holds.
Rule(q) ==
  IF IsCountQ(q) THEN "count"
  ELSE IF IsEarliestQ(q) THEN "earliest"
  ELSE IF IsCorrQ(q) THEN "correlation"
  ELSE IF IsPlotQ(q) THEN "scatterplot"
  ELSE "sentinel"

\* ------------------------------------------------------------- segmenter

\* The segmenter matching each line as it is and trimming it afterwards.
Segment_Untrimmed(question_str) ==
  LET lines == splitlines(question_str)
      kept == SelectSeq(lines, MatchesNumbered)
      numbered == [i \in 1..Len(kept) |-> Strip(kept[i])]
  IN  IF numbered = <<>> /\ Strip(question_str) # <<>> THEN <<Strip(question_str)>>
      ELSE numbered

\* Lines 56-60 of answer_questions.
Segment(question_str) ==
  LET lines == splitlines(question_str)
      numbered == SelectSeq([i \in 1..Len(lines) |-> Strip(lines[i])], MatchesNumbered)
  IN  IF numbered = <<>> /\ Strip(question_str) # <<>> THEN <<Strip(question_str)>>
      ELSE numbered

\* ----------------------------------------------------------------- inputs

\* The bounds of the inputs: the rows of a generated frame, the lines of a generated
\* question text, and the uploads of a request.
MaxRows == 2
MaxLines == 2
MaxFiles == 2

\* All sequences of length n over the set S.
RECURSIVE SeqsOfLen(_, _)
SeqsOfLen(S, n) ==
  IF n = 0 THEN {<<>>} ELSE {Append(xs, x) : xs \in SeqsOfLen(S, n - 1), x \in S}

\* All sequences of length 0..n, and 1..n, over the set S.
SeqsUpTo(S, n) == UNION {SeqsOfLen(S, k) : k \in 0..n}
NonEmptySeqsUpTo(S, n) == UNION {SeqsOfLen(S, k) : k \in 1..n}

\* "\n".join(lines)
RECURSIVE JoinLines(_)
JoinLines(lines) ==
  IF lines = <<>> THEN <<>>
  ELSE IF Len(lines) = 1 THEN lines[1]
  ELSE lines[1] \o <<"\n">> \o JoinLines(Tail(lines))

\* Question lines: one per rule, two that match several rules, and lines the
\* segmenter has to tell apart (not numbered, blank, a digit without its dot, a
\* numbered line ending in a carriage return).
Q_count == <<"1", ".", " ", "H", "o", "w", " ", "m", "a", "n", "y", " ", "$", "2", " ", "b", "n", " ", "f", "i", "l", "m", "s", " ", "b", "e", "f", "o", "r", "e", " ", "2", "0", "0", "0", "?">>
Q_earliest == <<" ", " ", "2", ".", " ", "E", "a", "r", "l", "i", "e", "s", "t", " ", "f", "i", "l", "m", " ", "o", "v", "e", "r", " ", "1", ".", "5", " ", "b", "n", "?", " ", " ">>
Q_corr == <<"3", ".", " ", "C", "o", "r", "r", "e", "l", "a", "t", "i", "o", "n", " ", "o", "f", " ", "R", "a", "n", "k", " ", "a", "n", "d", " ", "P", "e", "a", "k">>
Q_plot == <<"4", ".", " ", "S", "C", "A", "T", "T", "E", "R", "P", "L", "O", "T", " ", "o", "f", " ", "R", "a", "n", "k", " ", "v", "s", " ", "P", "e", "a", "k">>
Q_corr_plot == <<"5", ".", " ", "C", "o", "r", "r", "e", "l", "a", "t", "i", "o", "n", ",", " ", "S", "c", "a", "t", "t", "e", "r", "P", "l", "o", "t", ":", " ", "R", "A", "N", "K", ",", " ", "p", "e", "a", "k">>
Q_count_corr == <<"6", ".", "h", "o", "w", " ", "m", "a", "n", "y", " ", "$", "2", " ", "b", "n", " ", "b", "e", "f", "o", "r", "e", " ", "2", "0", "0", "0", "?", " ", "c", "o", "r", "r", "e", "l", "a", "t", "i", "o", "n", ",", " ", "s", "c", "a", "t", "t", "e", "r", "p", "l", "o", "t", ",", " ", "r", "a", "n", "k", ",", " ", "p", "e", "a", "k">>
Q_other == <<"7", ".", " ", "A", "n", "y", "t", "h", "i", "n", "g", " ", "e", "l", "s", "e", "?">>
Q_cr == <<"8", ".", "\r">>
Q_plain == <<"t", "h", "e", " ", "e", "a", "r", "l", "i", "e", "s", "t", " ", "f", "i", "l", "m", " ", "o", "v", "e", "r", " ", "$", "1", ".", "5", " ", "b", "n">>
Q_nodot == <<"9", " ", ".", " ", "r", "a", "n", "k">>
Q_blank == <<" ", "\t">>

LineSamples ==
  {Q_count, Q_earliest, Q_corr, Q_plot, Q_corr_plot, Q_count_corr, Q_other, Q_cr, Q_plain,
   Q_nodot, Q_blank}

\* The question texts of a request: up to MaxLines lines.
Texts == {JoinLines(ls) : ls \in SeqsUpTo(LineSamples, MaxLines)}

\* The cells a column of a generated frame draws from, by what the column is for.
\* Gross is at the lower threshold, between the two, at the upper one, and once no
\* number at all.
CellsFor(role) ==
  CASE role = "title" -> {StrCell(<<"?">>)}
    [] role = "year" -> {IntCell(1999), StrCell(<<"2", "0", "0", "0">>), StrCell(<<"n", "/", "a">>)}
    [] role = "gross" -> {StrCell(<<"$", "1", ",", "5", "0", "0", ",", "0", "0", "0", ",", "0", "0", "0">>), IntCell(1999999999),
                          StrCell(<<"$", "2", ",", "0", "0", "0", ",", "0", "0", "0", ",", "0", "0", "0">>), StrCell(<<"T", "B", "D">>)}
    [] role = "rank" -> {IntCell(1), StrCell(<<"2">>), StrCell(<<"x">>)}
    [] role = "peak" -> {IntCell(1), IntCell(2), NaN}

\* The rows of a frame whose columns have these roles: every choice of cells.
RECURSIVE RowsFor(_)
RowsFor(roles) ==
  IF roles = <<>> THEN {<<>>}
  ELSE {<<c>> \o rest : c \in CellsFor(Head(roles)), rest \in RowsFor(Tail(roles))}

\* The titles of rows 1, 2, 3, ...: each row's own.
TitleOfRow(r) == StrCell(<<<<"A", "B", "C", "D", "E", "F">>[r]>>)

\* The frame with these labels and rows, every title cell replaced by its row's title.
Titled(labels, roles, rows) ==
  Frame(labels, [r \in 1..Len(rows) |->
                   [j \in 1..Len(roles) |->
                      IF roles[j] = "title" THEN TitleOfRow(r) ELSE rows[r][j]]])

\* The frames of a layout ([labels, roles]): 1..MaxRows rows.
FramesOf(layout) ==
  {Titled(layout.labels, layout.roles, rows) :
     rows \in NonEmptySeqsUpTo(RowsFor(layout.roles), MaxRows)}

\* Film tables: canonical labels; labels to trim, an alias and no Title; no Year; no
\* Gross.
FilmLayouts ==
  { [labels |-> <<<<"T", "i", "t", "l", "e">>, <<"Y", "e", "a", "r">>, <<"G", "r", "o", "s", "s">>>>, roles |-> <<"title", "year", "gross">>],
    [labels |-> <<<<"Y", "e", "a", "r", " ">>, <<" ", "W", "o", "r", "l", "d", "w", "i", "d", "e", " ", "g", "r", "o", "s", "s">>>>, roles |-> <<"year", "gross">>],
    [labels |-> <<<<"T", "i", "t", "l", "e">>, <<"G", "r", "o", "s", "s">>>>, roles |-> <<"title", "gross">>],
    [labels |-> <<<<"T", "i", "t", "l", "e">>, <<"Y", "e", "a", "r">>>>, roles |-> <<"title", "year">>] }

\* Chart tables: Rank and Peak with a label to trim, and Peak missing.
ChartLayouts ==
  { [labels |-> <<<<" ", "R", "a", "n", "k", " ">>, <<"P", "e", "a", "k">>>>, roles |-> <<"rank", "peak">>],
    [labels |-> <<<<"R", "a", "n", "k">>>>, roles |-> <<"rank">>] }

FilmFrames == UNION {FramesOf(l) : l \in FilmLayouts}
ChartFrames == UNION {FramesOf(l) : l \in ChartLayouts}

\* A frame with every column and two aliases of Gross at once, the one the alias list
\* has first coming second; its Gross cells have a fraction.
FullFrame ==
  Frame(<<<<"R", "a", "n", "k">>, <<"P", "e", "a", "k">>, <<" ", "T", "i", "t", "l", "e">>, <<"W", "o", "r", "l", "d", "w", "i", "d", "e", " ", "G", "r", "o", "s", "s">>, <<"W", "o", "r", "l", "d", "w", "i", "d", "e", " ", "g", "r", "o", "s", "s">>, <<"Y", "e", "a", "r">>>>,
        << <<IntCell(1), IntCell(2), StrCell(<<"A">>), StrCell(<<"1">>), StrCell(<<"1", "5", "0", "0", "0", "0", "0", "0", "0", "0", ".", "0", "0">>), IntCell(1999)>>,
           <<IntCell(2), IntCell(1), StrCell(<<"B">>), StrCell(<<"2">>), StrCell(<<"1", "5", "0", "0", "0", "0", "0", "0", "0", "0", ".", "5", "0">>), StrCell(<<"1", "9", "9", "8">>)>>,
           <<IntCell(3), IntCell(3), StrCell(<<"C">>), StrCell(<<"3">>), StrCell(<<"U", "S", "$", " ", "2", ",", "0", "0", "0", ",", "0", "0", "0", ",", "0", "0", "0", ".", "0">>), StrCell(<<"1", "9", "9", "8">>)>> >>)

\* A frame with a header and no rows (a CSV of one line).
HeaderOnlyFrame == Frame(<<<<"R", "a", "n", "k">>, <<"P", "e", "a", "k">>>>, <<>>)

\* An upload: its filename (None when named is FALSE), whether pd.read_csv parses its
\* content, and the frame it parses to.
Upload(name, frame) == [named |-> TRUE, filename |-> name, parses |-> TRUE, frame |-> frame]
BadUpload(name) == [named |-> TRUE, filename |-> name, parses |-> FALSE, frame |-> None]
NamelessUpload(frame) == [named |-> FALSE, filename |-> <<>>, parses |-> TRUE, frame |-> frame]

\* A table that tells the uploads apart: one row, whose title is the given letter.
Marked(letter) == Frame(<<<<"T", "i", "t", "l", "e">>>>, << <<StrCell(<<letter>>)>> >>)

UploadSamples ==
  { Upload(<<"a", ".", "c", "s", "v">>, Marked("A")), Upload(<<"a", ".", "c", "s", "v">>, Marked("B")), Upload(<<"B", ".", "C", "S", "V">>, Marked("C")),
    Upload(<<"n", "o", "t", "e", "s", ".", "t", "x", "t">>, Marked("D")), BadUpload(<<"a", ".", "c", "s", "v">>), NamelessUpload(Marked("E")) }

\* What scrape_wikipedia_table may return for a URL: None, or the page's first table.
WebFrame == Frame(<<<<"R", "a", "n", "k">>, <<"P", "e", "a", "k">>, <<"T", "i", "t", "l", "e">>>>, << <<IntCell(1), IntCell(1), StrCell(<<"W">>)>> >>)
ScrapeOutcomes == {None, WebFrame}

\* Question texts with URLs: a Wikipedia page, another site before a Wikipedia page,
\* two Wikipedia pages, and none.
UrlTexts ==
  { <<"1", ".", " ", "f", "i", "l", "m", "s", " ", "a", "t", " ", "h", "t", "t", "p", "s", ":", "/", "/", "e", "n", ".", "w", "i", "k", "i", "p", "e", "d", "i", "a", ".", "o", "r", "g", "/", "w", "i", "k", "i", "/", "F", " ", "?">>,
    <<"s", "e", "e", " ", "h", "t", "t", "p", ":", "/", "/", "e", "x", "a", "m", "p", "l", "e", ".", "c", "o", "m", "/", "x", "\n", "1", ".", " ", "r", "a", "n", "k", " ", "h", "t", "t", "p", "s", ":", "/", "/", "w", "i", "k", "i", "p", "e", "d", "i", "a", ".", "o", "r", "g", "/", "a">>,
    <<"h", "t", "t", "p", "s", ":", "/", "/", "w", "i", "k", "i", "p", "e", "d", "i", "a", ".", "o", "r", "g", "/", "a", " ", "h", "t", "t", "p", "s", ":", "/", "/", "w", "i", "k", "i", "p", "e", "d", "i", "a", ".", "o", "r", "g", "/", "b">>,
    <<"1", ".", " ", "A", "n", "y", "t", "h", "i", "n", "g", " ", "e", "l", "s", "e", "?">> }

\* The texts asked of film tables and of chart tables.
FilmTexts == {JoinLines(<<Q_earliest, Q_count>>)}
ChartTexts == {JoinLines(<<Q_corr>>), JoinLines(<<Q_plot, Q_corr_plot>>)}

\* The texts asked of the two fixed tables: up to MaxLines lines that rules match.
RuleLines == {Q_count, Q_earliest, Q_corr, Q_plot, Q_corr_plot, Q_count_corr}
RuleTexts == {JoinLines(ls) : ls \in NonEmptySeqsUpTo(RuleLines, MaxLines)}

\* A request: the bytes of questions.txt (as text) and the uploads, in upload order.
Request(text, files) == [text |-> text, files |-> files]

Requests ==
  {Request(t, <<Upload(<<"f", "i", "l", "m", "s", ".", "c", "s", "v">>, f)>>) : t \in FilmTexts, f \in FilmFrames}
  \union {Request(t, <<Upload(<<"c", "h", "a", "r", "t", ".", "c", "s", "v">>, f)>>) : t \in ChartTexts, f \in ChartFrames}
  \union {Request(t, <<>>) : t \in Texts}
  \union {Request(t, <<Upload(<<"a", "l", "l", ".", "c", "s", "v">>, f)>>) : t \in RuleTexts, f \in {FullFrame, HeaderOnlyFrame}}
  \union {Request(t, fs) : t \in UrlTexts, fs \in SeqsUpTo(UploadSamples, MaxFiles)}

\* The PNG sizes (bytes) savefig may produce: small, the largest whose data URI fits,
\* and the smallest whose data URI does not.
PngSizes == {12000, 74982, 74983}

\* ------------------------------------------------------------------ state

VARIABLES
  pc,            \* where the request is
  question_text, \* the content of questions.txt
  files,         \* the uploads, in upload order
  question_str,  \* analyze_data: the decoded, stripped text
  fi,            \* analyze_data: the index of the upload the loop is at
  dataframes,    \* analyze_data: the dict, as its (key, value) items in insertion order
  urls,          \* analyze_data: extract_urls(question_str)
  ui,            \* analyze_data: the index of the URL the loop is at
  wiki_df,       \* analyze_data: the scraped frame or None
  df_to_use,     \* analyze_data: the frame passed to answer_questions, as passed
  df,            \* the same frame object as it is now
  questions,     \* answer_questions: the segmented questions
  ndf,           \* answer_questions: the normalized frame or None
  qi,            \* answer_questions: the index of the question the loop is at
  answers,       \* answer_questions: the answers so far
  branches,      \* history: the branch of the chain each answer came from
  figures        \* pyplot: the number of figures open

vars ==
  <<pc, question_text, files, question_str, fi, dataframes, urls, ui, wiki_df, df_to_use, df,
    questions, ndf, qi, answers, branches, figures>>

Init ==
  /\ \E req \in Requests : question_text = req.text /\ files = req.files
  /\ pc = "read"
  /\ question_str = <<>>
  /\ fi = 1
  /\ dataframes = <<>>
  /\ urls = <<>>
  /\ ui = 1
  /\ wiki_df = None
  /\ df_to_use = None
  /\ df = None
  /\ questions = <<>>
  /\ ndf = None
  /\ qi = 1
  /\ answers = <<>>
  /\ branches = <<>>
  /\ figures = 0

\* ------------------------------------------------------------ analyze_data

K_csv == <<".", "c", "s", "v">>
K_wikipedia == <<"w", "i", "k", "i", "p", "e", "d", "i", "a", ".", "o", "r", "g">>

\* dataframes[key] = value on a dict kept as its items in insertion order: the value
\* of a key already there is replaced where it is, a new key goes last.
DictSet(items, key, value) ==
  IF \E i \in 1..Len(items) : items[i].key = key
  THEN [i \in 1..Len(items) |-> IF items[i].key = key THEN [key |-> key, value |-> value]
                                ELSE items[i]]
  ELSE Append(items, [key |-> key, value |-> value])

\* next(iter(dataframes.values()), None)
FirstValue(items) == IF items = <<>> THEN None ELSE items[1].value

\* Whether the body of the try runs to dataframes[f.filename] = df for upload f:
\* f.filename.lower() raises on None, a name not ending in ".csv" is passed over, and
\* pd.read_csv may raise.
Loads(f) == f.named /\ EndsWith(Lower(f.filename), K_csv) /\ f.parses

\* wiki_df if wiki_df is not None else next(iter(dataframes.values()), None)
Chosen(scraped, items) == IF scraped.some THEN scraped ELSE FirstValue(items)

\* Lines 30-31: the text is read, decoded and stripped.
ReadQuestions ==
  /\ pc = "read"
  /\ question_str' = Strip(question_text)
  /\ pc' = "files"
  /\ UNCHANGED <<question_text, files, fi, dataframes, urls, ui, wiki_df, df_to_use, df,
                 questions, ndf, qi, answers, branches, figures>>

\* One turn of the loop over the uploads that stores a frame.
LoadUpload ==
  /\ pc = "files"
  /\ fi <= Len(files)
  /\ Loads(files[fi])
  /\ dataframes' = DictSet(dataframes, files[fi].filename, files[fi].frame)
  /\ fi' = fi + 1
  /\ UNCHANGED <<pc, question_text, files, question_str, urls, ui, wiki_df, df_to_use, df,
                 questions, ndf, qi, answers, branches, figures>>

\* One turn of the loop over the uploads that stores nothing: not a .csv name, or the
\* except clause.
SkipUpload ==
  /\ pc = "files"
  /\ fi <= Len(files)
  /\ ~Loads(files[fi])
  /\ fi' = fi + 1
  /\ UNCHANGED <<pc, question_text, files, question_str, dataframes, urls, ui, wiki_df,
                 df_to_use, df, questions, ndf, qi, answers, branches, figures>>

\* Line 47, after the last upload.
ExtractUrls ==
  /\ pc = "files"
  /\ fi > Len(files)
  /\ urls' = extract_urls(question_str)
  /\ pc' = "urls"
  /\ UNCHANGED <<question_text, files, question_str, fi, dataframes, ui, wiki_df, df_to_use, df,
                 questions, ndf, qi, answers, branches, figures>>

\* One turn of the loop over the URLs on a Wikipedia URL: the scrape returns a frame
\* (and the loop breaks) or None.
ScrapeUrl ==
  /\ pc = "urls"
  /\ ui <= Len(urls)
  /\ Contains(urls[ui], K_wikipedia)
  /\ \E r \in ScrapeOutcomes :
       /\ wiki_df' = r
       /\ IF r.some THEN pc' = "choose" /\ ui' = ui ELSE pc' = pc /\ ui' = ui + 1
  /\ UNCHANGED <<question_text, files, question_str, fi, dataframes, urls, df_to_use, df,
                 questions, ndf, qi, answers, branches, figures>>

\* One turn of the loop over the URLs on any other URL.
SkipUrl ==
  /\ pc = "urls"
  /\ ui <= Len(urls)
  /\ ~Contains(urls[ui], K_wikipedia)
  /\ ui' = ui + 1
  /\ UNCHANGED <<pc, question_text, files, question_str, fi, dataframes, urls, wiki_df,
                 df_to_use, df, questions, ndf, qi, answers, branches, figures>>

\* Lines 60-63: the frame is chosen and answer_questions is called with it.
ChooseFrame ==
  /\ pc = "choose" \/ (pc = "urls" /\ ui > Len(urls))
  /\ df_to_use' = Chosen(wiki_df, dataframes)
  /\ df' = Chosen(wiki_df, dataframes)
  /\ pc' = "segment"
  /\ UNCHANGED <<question_text, files, question_str, fi, dataframes, urls, ui, wiki_df,
                 questions, ndf, qi, answers, branches, figures>>

\* -------------------------------------------------------- answer_questions

\* Lines 56-60.
SegmentQuestions ==
  /\ pc = "segment"
  /\ questions' = Segment(question_str)
  /\ pc' = "normalize"
  /\ UNCHANGED <<question_text, files, question_str, fi, dataframes, urls, ui, wiki_df,
                 df_to_use, df, ndf, qi, answers, branches, figures>>

\* Lines 62-63.
Normalize ==
  /\ pc = "normalize"
  /\ ndf' = _normalize_df(df)
  /\ df' = CallerFrameAfter(df)
  /\ answers' = <<>>
  /\ pc' = "loop"
  /\ UNCHANGED <<question_text, files, question_str, fi, dataframes, urls, ui, wiki_df,
                 df_to_use, questions, qi, branches, figures>>

\* One turn of the loop over the questions that appends answer a from branch b.
Answered(b, a) ==
  /\ answers' = Append(answers, a)
  /\ branches' = Append(branches, b)
  /\ qi' = qi + 1
  /\ UNCHANGED <<pc, question_text, files, question_str, fi, dataframes, urls, ui, wiki_df,
                 df_to_use, df, questions, ndf, figures>>

AtQuestion(b) == pc = "loop" /\ qi <= Len(questions) /\ Rule(questions[qi]) = b

\* Lines 69-74.
AnswerCount == AtQuestion("count") /\ Answered("count", AnswerCountOf(ndf))

\* Lines 77-86.
AnswerEarliest == AtQuestion("earliest") /\ Answered("earliest", AnswerEarliestOf(ndf))

\* Lines 89-98.
AnswerCorrelation == AtQuestion("correlation") /\ Answered("correlation", AnswerCorrOf(ndf))

\* Lines 101-107: the scatterplot branch when there is nothing to draw.
AnswerNoPlot ==
  /\ AtQuestion("scatterplot")
  /\ ~PlotDraws(ndf)
  /\ Answered("scatterplot", StrAns(<<>>))

\* Lines 108-134 when linregress returns: the figure is opened, drawn with the line,
\* saved and closed, and the data URI of the PNG is the answer.
AnswerPlot ==
  /\ AtQuestion("scatterplot")
  /\ PlotDraws(ndf)
  /\ \E size \in PngSizes :
       /\ answers' = Append(answers, DataUriOf(size, TRUE))
       /\ branches' = Append(branches, "scatterplot")
       /\ qi' = qi + 1
       /\ figures' = (figures + 1) - 1
  /\ UNCHANGED <<pc, question_text, files, question_str, fi, dataframes, urls, ui, wiki_df,
                 df_to_use, df, questions, ndf>>

\* Lines 110-114 when linregress raises: the figure is open, nothing catches the
\* error, and it leaves answer_questions.
PlotRaises ==
  /\ AtQuestion("scatterplot")
  /\ PlotDraws(ndf)
  /\ FitRaises(ndf)
  /\ figures' = figures + 1
  /\ pc' = "raised"
  /\ UNCHANGED <<question_text, files, question_str, fi, dataframes, urls, ui, wiki_df,
                 df_to_use, df, questions, ndf, qi, answers, branches>>

\* Lines 137-138.
AnswerSentinel == AtQuestion("sentinel") /\ Answered("sentinel", StrAns(NotRecognized))

\* Line 140.
Return ==
  /\ pc = "loop"
  /\ qi > Len(questions)
  /\ pc' = "done"
  /\ UNCHANGED <<question_text, files, question_str, fi, dataframes, urls, ui, wiki_df,
                 df_to_use, df, questions, ndf, qi, answers, branches, figures>>

Next ==
  \/ ReadQuestions
  \/ LoadUpload
  \/ SkipUpload
  \/ ExtractUrls
  \/ ScrapeUrl
  \/ SkipUrl
  \/ ChooseFrame
  \/ SegmentQuestions
  \/ Normalize
  \/ AnswerCount
  \/ AnswerEarliest
  \/ AnswerCorrelation
  \/ AnswerNoPlot
  \/ AnswerPlot
  \/ PlotRaises
  \/ AnswerSentinel
  \/ Return

Spec == Init /\ [][Next]_vars

\* ------------------------------------------------------------------ claims

\* answer_questions has been entered / has segmented / has normalized.
Entered == pc \in {"segment", "normalize", "loop", "done", "raised"}
Segmented == pc \in {"normalize", "loop", "done", "raised"}
Normalized == pc \in {"loop", "done", "raised"}

\* Whether string t starts with one or more digits followed by a dot.
StartsWithNumberDot(t) ==
  \E n \in 1..(Len(t) - 1) : t[n + 1] = "." /\ \A j \in 1..n : t[j] \in Digits

\* Whether lower-cased question l holds every one of the given substrings.
HoldsAll(l, subs) == \A k \in subs : Contains(l, k)

CountWords == {K_how_many, K_2bn, K_before_2000}
EarliestWords == {K_earliest_film, K_15bn}
CorrWords == {K_correlation, K_rank, K_peak}
PlotWords == {K_scatterplot, K_rank, K_peak}

\* C1, as claimed: answer_questions always returns (no error leaves it), and the list
\* it returns has exactly one answer per segmented question, the i-th from the i-th
\* question's branch.
C1_OneAnswerPerQuestion ==
  /\ pc # "raised"
  /\ pc = "done" =>
       /\ Len(answers) = Len(questions)
       /\ \A i \in 1..Len(answers) : branches[i] = Rule(questions[i])

\* C2, as claimed: every answer comes from the first rule, in the order count,
\* earliest, correlation, scatterplot, sentinel, whose substrings are all in the
\* lower-cased question, and a question holding "correlation", "scatterplot", "rank"
\* and "peak" is always answered by the correlation rule.
C2_CorrelationAlways ==
  \A i \in 1..Len(answers) :
    HoldsAll(Lower(questions[i]), CorrWords \union PlotWords) => branches[i] = "correlation"

\* C2, amended: every answer comes from the first rule, in the order count, earliest,
\* correlation, scatterplot, sentinel, whose substrings are all in the lower-cased
\* question; a question holding "correlation", "scatterplot", "rank" and "peak" is
\* never answered by the scatterplot rule, and is answered by the correlation rule
\* unless the count rule or the earliest rule matches it too.
C2_FirstMatchingRule ==
  \A i \in 1..Len(answers) :
    LET l == Lower(questions[i])
        c == HoldsAll(l, CountWords)
        e == HoldsAll(l, EarliestWords)
        r == HoldsAll(l, CorrWords)
        p == HoldsAll(l, PlotWords)
        b == branches[i]
    IN  /\ (b = "count") = c
        /\ (b = "earliest") = (~c /\ e)
        /\ (b = "correlation") = (~c /\ ~e /\ r)
        /\ (b = "scatterplot") = (~c /\ ~e /\ ~r /\ p)
        /\ (b = "sentinel") = (~c /\ ~e /\ ~r /\ ~p)
        /\ (r /\ p) => b # "scatterplot"
        /\ (r /\ p /\ ~c /\ ~e) => b = "correlation"

\* C2's case: a question holding all four words, in upper and lower case, answered by
\* the correlation rule, after one that the count rule took although it holds them too.
C2_Witness ==
  \E i, j \in 1..Len(answers) :
    /\ HoldsAll(Lower(questions[i]), CorrWords \union PlotWords)
    /\ questions[i] # Lower(questions[i])
    /\ branches[i] = "correlation"
    /\ HoldsAll(Lower(questions[j]), CorrWords \union PlotWords)
    /\ branches[j] = "count"

\* C3: the questions are the trimmed lines that start with digits and a dot, in the
\* order of the lines, when there is such a line; else the trimmed text alone when it
\* is not empty; else there is none.
C3_Segmenter ==
  Segmented =>
    LET lines == splitlines(question_str)
        marked == {i \in 1..Len(lines) : StartsWithNumberDot(Strip(lines[i]))}
        nth(k) == CHOOSE i \in marked : Cardinality({j \in marked : j < i}) = k - 1
    IN  IF marked # {}
        THEN /\ Len(questions) = Cardinality(marked)
             /\ \A k \in 1..Len(questions) : questions[k] = Strip(lines[nth(k)])
        ELSE IF \E i \in 1..Len(question_str) : question_str[i] \notin Whitespace
        THEN questions = <<Strip(question_str)>>
        ELSE questions = <<>>

\* C3's case: numbered lines are kept, one of them trimmed, and another line of the
\* text is discarded.
C3_Witness ==
  /\ Segmented
  /\ Len(questions) >= 1
  /\ Len(splitlines(question_str)) > Len(questions)
  /\ \E i \in 1..Len(splitlines(question_str)) :
       /\ splitlines(question_str)[i] # Strip(splitlines(question_str)[i])
       /\ \E k \in 1..Len(questions) : questions[k] = Strip(splitlines(question_str)[i])

\* The typed default of a branch.
DefaultOf(b) ==
  CASE b = "count" -> IntAns(0)
    [] b = "earliest" -> StrAns(<<>>)
    [] b = "correlation" -> FloatAns(0, 1)
    [] b = "scatterplot" -> StrAns(<<>>)

\* The labels a branch requires of the normalized frame.
RequiredOf(b) ==
  CASE b = "count" -> {L_GrossNum, L_Year}
    [] b = "earliest" -> {L_GrossNum, L_Year, L_Title}
    [] b = "correlation" -> {L_Rank, L_Peak}
    [] b = "scatterplot" -> {L_Rank, L_Peak}

\* The table passed in is None or has no rows.
NoData == ~df_to_use.some \/ Len(df_to_use.rows) = 0

C5_FigureReleased == figures = 0 /\ pc # "raised"

\* C6, as claimed: the table passed to answer_questions is the scraped one when a
\* scrape returned a table, else that of the first upload, in upload order, that is
\* named *.csv and parses, else None.
C6_FirstParsedUpload ==
  Entered =>
    LET good == {i \in 1..Len(files) :
                   /\ files[i].named
                   /\ EndsWith(Lower(files[i].filename), K_csv)
                   /\ files[i].parses}
    IN  df_to_use = IF wiki_df.some THEN wiki_df
                    ELSE IF good = {} THEN None
                    ELSE files[Least(good)].frame

Qualifying ==
  {r \in 1..Len(ndf.rows) :
     LET g == CellOf(ndf, r, L_GrossNum)
     IN  /\ g.t = "bn"
         /\ g.n > 15 * TenthDollars \/ (g.n = 15 * TenthDollars /\ g.f # <<>>)
         /\ CellOf(ndf, r, L_Year).t = "int"}

\* C8: with GrossNum, Year and Title present, the earliest-film answer is the Title of
\* the qualifying row with the smallest Year, the first such row in row order when
\* several share it, and "" when no row qualifies.
C8_Earliest ==
  \A i \in 1..Len(answers) :
    (branches[i] = "earliest" /\ ndf.some /\ HasCols(ndf, {L_GrossNum, L_Year, L_Title})) =>
      IF Qualifying = {} THEN answers[i] = StrAns(<<>>)
      ELSE \E r \in Qualifying :
             /\ \A o \in Qualifying : CellOf(ndf, r, L_Year).n <= CellOf(ndf, o, L_Year).n
             /\ \A o \in Qualifying : CellOf(ndf, o, L_Year).n = CellOf(ndf, r, L_Year).n => r <= o
             /\ answers[i] = StrAns(CellOf(ndf, r, L_Title).s)

\* C8's case: two qualifying rows share the smallest Year and the answer is the title
\* of the first; the table also has a row at exactly 1.5 billion.
C8_Witness ==
  /\ Normalized
  /\ ndf.some
  /\ HasCols(ndf, {L_GrossNum, L_Year, L_Title})
  /\ {1, 2} \subseteq Qualifying
  /\ CellOf(ndf, 1, L_Year).n = CellOf(ndf, 2, L_Year).n
  /\ \E i \in 1..Len(answers) :
       branches[i] = "earliest" /\ answers[i] = StrAns(CellOf(ndf, 1, L_Title).s)

\* C8's other case: the qualifying row with the smallest Year is not the first row.
C8_WitnessLater ==
  /\ Normalized
  /\ ndf.some
  /\ HasCols(ndf, {L_GrossNum, L_Year, L_Title})
  /\ Qualifying = {1, 2}
  /\ \E i \in 1..Len(answers) :
       branches[i] = "earliest" /\ answers[i] = StrAns(CellOf(ndf, 2, L_Title).s)

\* C9: with GrossNum and Year present, the count answer is the number of rows with
\* GrossNum at least 2.0 billion and Year below 2000; a row whose GrossNum or Year is
\* missing is not among them.
C9_Count ==
  \A i \in 1..Len(answers) :
    (branches[i] = "count" /\ ndf.some /\ HasCols(ndf, {L_GrossNum, L_Year})) =>
      answers[i] = IntAns(Cardinality(
        {r \in 1..Len(ndf.rows) :
           /\ CellOf(ndf, r, L_GrossNum).t = "bn"
           /\ CellOf(ndf, r, L_GrossNum).n >= 2 * DollarsPerBillion
           /\ CellOf(ndf, r, L_Year).t = "int"
           /\ CellOf(ndf, r, L_Year).n <= 1999}))

\* C9's case: a row at exactly 2.0 billion before 2000 is counted, and a row at 2.0
\* billion in the year 2000 is not.
C9_Witness ==
  /\ Normalized
  /\ ndf.some
  /\ HasCols(ndf, {L_GrossNum, L_Year})
  /\ Len(ndf.rows) = 2
  /\ \A r \in 1..2 : CellOf(ndf, r, L_GrossNum) = BillionsCell(2 * DollarsPerBillion, <<>>)
  /\ CellOf(ndf, 1, L_Year) = IntCell(1999)
  /\ CellOf(ndf, 2, L_Year) = IntCell(2000)
  /\ \E i \in 1..Len(answers) : branches[i] = "count" /\ answers[i] = IntAns(1)

\* C10: an answer of the scatterplot rule is "" or a data URI of at most 100,000
\* characters that starts with the whole prefix: the whole URI of the PNG when that
\* is at most 100,000 characters long, else its first 100,000 characters.
C10_UriBound ==
  \A i \in 1..Len(answers) :
    branches[i] = "scatterplot" =>
      \/ answers[i] = StrAns(<<>>)
      \/ /\ answers[i].kind = "uri"
         /\ answers[i].s = UriPrefix
         /\ Len(answers[i].s) + answers[i].payload <= 100000
         /\ \E size \in PngSizes :
              LET whole == Len(UriPrefix) + 4 * ((size + 2) \div 3)
              IN  Len(answers[i].s) + answers[i].payload = IF whole > 100000 THEN 100000 ELSE whole

\* C10's case: a data URI that was cut to 100,000 characters.
C10_Witness ==
  \E i \in 1..Len(answers) :
    /\ branches[i] = "scatterplot"
    /\ answers[i].kind = "uri"
    /\ AnsLen(answers[i]) = MaxUriLen
    /\ answers[i].payload < Base64Len(74983)

====
